---- MODULE Spec2Model ----
(***************************************************************************)
(* A model of the Tracing_SfM scripts:                                     *)
(*   extractPoints.py   extract_points   (specification Spec)              *)
(*   read2DExport3D.py  read2DExport3D   (specification SpecRead)          *)
(* Text is a sequence of one-character strings, so that substring tests,   *)
(* basename, splitext, strip and split are computed and not assumed.       *)
(* Python's 0-based loop index idx is kept 1-based here (alt_names[idx]    *)
(* reads the same element); pixel coordinates stay 0-based.                *)
(***************************************************************************)
EXTENDS Integers, Sequences, FiniteSets, TLC

VARIABLES
    \* ---- extract_points: arguments and the file system
    image_names, suffixes, alt_names, directory_to_search,
    dirFiles,        \* names of the files now in directory_to_search
    content,         \* file name -> the raster io.imread returns for it
    \* ---- extract_points: locals
    pc, listing, idx, sidx, image_path, this_image, binary_image, skeleton,
    regions, comp_idx, k,
    \* ---- the output file: f_out's buffer and what has reached the file
    buffer, disk,
    \* ---- history: which loop position wrote each line, how the run ended
    log, selected, regPair, err,
    \* ---- read2DExport3D
    path, fsFiles, chunk,   \* arguments and the files that exist
    markers,                \* chunk.markers
    rpc, cameras, lines, lineNo, out_path, output,
    \* ---- history: the markers at the call, what each line met
    markers0, rlog

exVars == <<image_names, suffixes, alt_names, directory_to_search, dirFiles,
            content, pc, listing, idx, sidx, image_path, this_image,
            binary_image, skeleton, regions, comp_idx, k, buffer, disk, log,
            selected, regPair, err>>
rdVars == <<path, fsFiles, chunk, markers, rpc, cameras, lines, lineNo,
            out_path, output, markers0, rlog>>
vars == <<exVars, rdVars>>

----------------------------------------------------------------------------
(* Bounds of the model *)

\* the frame raster, thinned to every possible skeleton, is Rows x Cols
Rows == 4
Cols == 3
\* lines f_out's buffer holds before the library writes it through
BufferCap == 2

(* Program constants *)
Stride == 5
White == 255
\* 1.0 for a float sample; float samples are counted in units of 1/FloatOne
FloatOne == 2550000

----------------------------------------------------------------------------
(* Text helpers *)

Max(S) == CHOOSE x \in S : \A y \in S : y <= x

\* Python's  sub in s
Contains(sub, s) ==
    \E i \in 0..(Len(s) - Len(sub)) : SubSeq(s, i + 1, i + Len(sub)) = sub

\* s.rfind(ch) + 1: the last position of ch in s, 0 when there is none
LastIndex(ch, s) == Max({0} \cup {i \in 1..Len(s) : s[i] = ch})

\* os.path.basename
Basename(p) == SubSeq(p, LastIndex("/", p) + 1, Len(p))

\* os.path.splitext(p)[0]: cut at the last dot of the file name, unless
\* only dots precede it there
SplitextRoot(p) ==
    LET sep == LastIndex("/", p)
        dot == LastIndex(".", p)
    IN  IF dot > sep /\ \E j \in (sep + 1)..(dot - 1) : p[j] # "."
        THEN SubSeq(p, 1, dot - 1)
        ELSE p

\* os.path.join(d, name)
Join(d, name) ==
    IF d = <<>> THEN name
    ELSE IF d[Len(d)] = "/" THEN d \o name
    ELSE d \o <<"/">> \o name

Tif == <<".", "t", "i", "f">>

\* the pattern *.tif of glob: the name ends in .tif and is not hidden
MatchesTif(name) ==
    /\ Len(name) >= 4
    /\ SubSeq(name, Len(name) - 3, Len(name)) = Tif
    /\ name[1] # "."

\* every order in which a directory listing can return the set S
Orderings(S) ==
    {f \in [1..Cardinality(S) -> S] : \A i, j \in 1..Cardinality(S) : f[i] = f[j] => i = j}

\* glob.glob(os.path.join(directory_to_search, '*.tif')), in some order
GlobResults(d, files) ==
    Orderings({Join(d, f) : f \in {g \in files : MatchesTif(g)}})

\* line 39
NameOnly(image_name) == SplitextRoot(Basename(image_name))

\* line 42
MatchingFiles(lst, name_only) ==
    LET T(file) == Contains(name_only, Basename(file)) IN SelectSeq(lst, T)

\* a slip: the suffix is not looked at
FilesIgnoringSuffix(matching_files, suffix) == matching_files

\* line 47
FilesWithSuffix(matching_files, suffix) ==
    LET T(file) == Contains(suffix, Basename(file)) IN SelectSeq(matching_files, T)

\* a slip: the last match is taken
LastFile(files_with_suffix) == files_with_suffix[Len(files_with_suffix)]

\* line 52
FirstFile(files_with_suffix) == files_with_suffix[1]

----------------------------------------------------------------------------
(* Rasters: [dtype, ndim, data]; data is a sequence of rows, a row a       *)
(* sequence of samples, a sample a number (ndim = 2) or an <<R, G, B>>     *)
(* triple (ndim = 3).  A float sample v stands for v / FloatOne.           *)

Raster(dtype, ndim, data) == [dtype |-> dtype, ndim |-> ndim, data |-> data]

Height(img) == Len(img.data)
Width(img) == IF Len(img.data) = 0 THEN 0 ELSE Len(img.data[1])

\* color.rgb2gray of a uint8 colour image: a float image of luminances
\* 0.2125 R + 0.7154 G + 0.0721 B with R, G, B scaled to [0, 1]
Luminance(px) == 2125 * px[1] + 7154 * px[2] + 721 * px[3]

\* lines 58-59
ToGray(img) ==
    IF img.ndim = 3
    THEN Raster("float64", 2,
                [r \in 1..Height(img) |->
                    [c \in 1..Width(img) |-> Luminance(img.data[r][c])]])
    ELSE img

\* a slip: white itself counts as foreground
IsForeground8Le(v) == v <= White

\* line 65:  this_image < 255
IsForeground8(v) == v < White

\* a slip: integer samples are compared with their own maximum
IsForegroundBelowMax(dtype, v) ==
    IF dtype = "float64" THEN v < FloatOne ELSE v < 65535

\* line 67:  this_image < 1.0, for whatever dtype is not uint8
IsForegroundOther(dtype, v) ==
    IF dtype = "float64" THEN v < FloatOne ELSE v < 1

\* lines 64-67
Binarize(img) ==
    [r \in 1..Height(img) |->
        [c \in 1..Width(img) |->
            IF img.dtype = "uint8"
            THEN IsForeground8(img.data[r][c])
            ELSE IsForegroundOther(img.dtype, img.data[r][c])]]

\* the True pixels of a mask, as 0-based <<row, col>>
Foreground(mask) ==
    LET w == IF Len(mask) = 0 THEN 0 ELSE Len(mask[1])
    IN  {p \in {<<r - 1, c - 1>> : r \in 1..Len(mask), c \in 1..w} :
            mask[p[1] + 1][p[2] + 1]}

\* morphology.skeletonize is a library call: whatever thinning it does, it
\* only removes foreground pixels
Skeletons(mask) == SUBSET Foreground(mask)

Neighbors8(p) ==
    {<<p[1] + dr, p[2] + dc>> : dr \in -1..1, dc \in -1..1} \ {p}

\* p comes before q in raster (row-major) order
RowMajorLe(p, q) == p[1] < q[1] \/ (p[1] = q[1] /\ p[2] <= q[2])

RowMajorFirst(S) == CHOOSE p \in S : \A q \in S : RowMajorLe(p, q)

RECURSIVE Flood(_, _)
Flood(S, comp) ==
    LET nxt == comp \cup {q \in S : \E p \in comp : q \in Neighbors8(p)}
    IN  IF nxt = comp THEN comp ELSE Flood(S, nxt)

\* measure.label(skeleton, connectivity=2): the 8-connected components,
\* numbered in raster order of their first pixel
RECURSIVE LabelComponents(_)
LabelComponents(S) ==
    IF S = {} THEN <<>>
    ELSE LET comp == Flood(S, {RowMajorFirst(S)})
         IN  <<comp>> \o LabelComponents(S \ comp)

\* the eight neighbours, clockwise from north
NeighborOrder ==
    <<<<-1, 0>>, <<-1, 1>>, <<0, 1>>, <<1, 1>>, <<1, 0>>, <<1, -1>>, <<0, -1>>, <<-1, -1>>>>

\* the order in which a breadth-first flood fill of S visits its pixels:
\* order holds the pixels visited so far, those from position h on are
\* still to be expanded
RECURSIVE BreadthFirst(_, _, _)
BreadthFirst(S, order, h) ==
    IF h > Len(order) THEN order
    ELSE LET p == order[h]
             seen == {order[i] : i \in 1..Len(order)}
             nbrs == [i \in 1..8 |-> <<p[1] + NeighborOrder[i][1], p[2] + NeighborOrder[i][2]>>]
             New(q) == q \in S /\ q \notin seen
         IN  BreadthFirst(S, order \o SelectSeq(nbrs, New), h + 1)

\* a different region.coords: the pixels in breadth-first order from the
\* region's first pixel
RegionCoordsBFS(comp) ==
    IF comp = {} THEN <<>> ELSE BreadthFirst(comp, <<RowMajorFirst(comp)>>, 1)

\* region.coords: the pixels of one region in raster order
RECURSIVE RegionCoords(_)
RegionCoords(comp) ==
    IF comp = {} THEN <<>>
    ELSE LET p == RowMajorFirst(comp)
         IN  <<p>> \o RegionCoords(comp \ {p})

\* lines 74-77: regions, in label order, each as its coords
Regions(skel) ==
    LET L == LabelComponents(skel)
    IN  [i \in 1..Len(L) |-> RegionCoords(L[i])]

\* a slip: every 4th pixel is taken, coords[::4]
SubsampleByFour(coords) ==
    [j \in 1..((Len(coords) + 3) \div 4) |-> coords[(j - 1) * 4 + 1]]

\* line 83:  coords[::5]
Subsample(coords) ==
    [j \in 1..((Len(coords) + Stride - 1) \div Stride) |-> coords[(j - 1) * Stride + 1]]

\* a slip: the alt name of the first image is used for all
AltNameFirst(i) == alt_names[1]

\* line 88: alt_names[idx]
AltName(i) == alt_names[i]

\* line 88: the fields of one output line
Line(i, yx, suffix, comp) == <<AltName(i), yx[2], yx[1], suffix, comp>>

\* f_out.write: the line goes to the buffer, which the library writes
\* through to the file when it is full
BufferAfterWrite(b, line) ==
    IF Len(b) + 1 > BufferCap THEN <<>> ELSE Append(b, line)

DiskAfterWrite(d, b, line) ==
    IF Len(b) + 1 > BufferCap THEN d \o Append(b, line) ELSE d

\* a slip: the file is left without its buffer being written
DiskAfterCloseNoFlush(d, b) == d

\* leaving the with block, normally or by an exception, closes f_out,
\* which flushes its buffer
DiskAfterClose(d, b) == d \o b

----------------------------------------------------------------------------
(* The inputs the model runs extract_points on *)

NameA == <<"x", "/", "a">> \o Tif        \* x/a.tif, base name a
NameB == <<"b">> \o Tif                  \* b.tif, base name b
NameC == <<"c">>                         \* c, no extension, matches no file
SufS == <<"_", "s">>
SufT == <<"_", "t">>
FileAS == <<"a", "_", "s">> \o Tif       \* a_s.tif
FileBAS == <<"b", "a", "_", "s">> \o Tif \* ba_s.tif: base names a and b
FileBT == <<"b", "_", "t">> \o Tif       \* b_t.tif
FilePng == <<"a", "_", "s", ".", "p", "n", "g">>
DirName == <<"a">>                       \* the directory's name holds an a

Gray8(data) == Raster("uint8", 2, data)

\* what the files of the selection runs hold
SelContent ==
    (FileAS :> Gray8(<<<<0, 255>>>>)) @@
    (FileBAS :> Raster("uint16", 2, <<<<0, 300>>>>)) @@
    (FileBT :> Gray8(<<<<0, 255, 254>>>>)) @@
    (FilePng :> Gray8(<<<<0>>>>))

SelImageNames ==
    {<<>>, <<NameA>>, <<NameA, NameB>>, <<NameB, NameA>>, <<NameC, NameA>>}
SelSuffixes == {<<SufS>>, <<SufS, SufT>>, <<SufT, SufS>>}
SelDirs == {{}, {FileAS, FilePng}, {FileAS, FileBAS, FileBT}}
\* one alt name per image name, or one too few
SelAltNames(names) ==
    LET all == [i \in 1..Len(names) |-> IF i = 1 THEN "A" ELSE "B"]
    IN  {all} \cup (IF Len(names) = 2 THEN {SubSeq(all, 1, 1)} ELSE {})

\* a black frame, one pixel wide, around a white interior
Frame ==
    Gray8([r \in 1..Rows |->
            [c \in 1..Cols |-> IF r \in {1, Rows} \/ c \in {1, Cols} THEN 0 ELSE White]])

\* the rasters of the single-image runs: every 8-bit sample value, the
\* boundary values of the other sample domains, and the frame, which is
\* thinned to every possible skeleton
ImgRasters ==
    {Gray8(<<<<v>>>>) : v \in 0..255}
    \cup {Frame}
    \cup {Raster("uint16", 2, <<<<a, b>>>>) : a \in {0, 1, 65535}, b \in {0, 1, 255}}
    \cup {Raster("float64", 2, <<<<a, b>>>>) : a \in {0, FloatOne - 1}, b \in {FloatOne}}
    \cup {Raster("uint8", 3, <<<<a, b>>>>) :
            a \in {<<255, 255, 255>>}, b \in {<<255, 255, 254>>, <<0, 0, 0>>}}

\* read2DExport3D is not running
ReadIdle ==
    /\ rpc = "idle" /\ path = <<>> /\ fsFiles = {}
    /\ chunk = [present |-> FALSE, cameras |-> <<>>, dense_cloud |-> FALSE]
    /\ markers = {} /\ markers0 = {} /\ cameras = <<>> /\ lines = <<>>
    /\ lineNo = 0 /\ out_path = <<>> /\ output = <<>> /\ rlog = <<>>

ExStart ==
    /\ pc = "open" /\ listing = <<>> /\ idx = 0 /\ sidx = 0
    /\ image_path = <<>> /\ this_image = Raster("none", 0, <<>>)
    /\ binary_image = <<>> /\ skeleton = {}
    /\ regions = <<>> /\ comp_idx = 1 /\ k = 0
    /\ buffer = <<>> /\ disk = <<>> /\ log = <<>>
    /\ selected = <<>> /\ regPair = <<0, 0>> /\ err = "none"

\* runs that exercise the file selection and the loops
InitSel ==
    /\ image_names \in SelImageNames
    /\ suffixes \in SelSuffixes
    /\ alt_names \in SelAltNames(image_names)
    /\ directory_to_search = DirName
    /\ dirFiles \in SelDirs
    /\ content = SelContent

\* runs on one image, that exercise the image processing
InitImg ==
    /\ image_names = <<<<"a">> \o Tif>>
    /\ suffixes = <<SufS>>
    /\ alt_names = <<"A">>
    /\ directory_to_search = DirName
    /\ dirFiles = {FileAS}
    /\ content \in {(FileAS :> img) : img \in ImgRasters}

Init == (InitSel \/ InitImg) /\ ExStart /\ ReadIdle

----------------------------------------------------------------------------
(* extract_points, step by step *)

\* line 34: the directory is listed once
Glob ==
    /\ pc = "open"
    /\ listing' \in GlobResults(directory_to_search, dirFiles)
    /\ idx' = 1
    /\ pc' = "criterion"
    /\ UNCHANGED rdVars
    /\ UNCHANGED <<image_names, suffixes, alt_names, directory_to_search,
                   dirFiles, content, sidx, image_path, binary_image,
                   skeleton, regions, comp_idx, k, buffer, disk, log,
                   regPair, err, this_image, selected>>

\* the files of the listing for the criterion and suffix at hand
CurrentFiles ==
    FilesWithSuffix(MatchingFiles(listing, NameOnly(image_names[idx])),
                    suffixes[sidx])

\* line 37: the next image name
NextCriterion ==
    /\ pc = "criterion"
    /\ idx <= Len(image_names)
    /\ sidx' = 1
    /\ pc' = "suffix"
    /\ UNCHANGED rdVars
    /\ UNCHANGED <<image_names, suffixes, alt_names, directory_to_search,
                   dirFiles, content, listing, idx, image_path,
                   binary_image, skeleton, regions, comp_idx, k, buffer,
                   disk, log, regPair, err, this_image, selected>>

\* lines 37, 32: no image name is left, the with block ends
Close ==
    /\ pc = "criterion"
    /\ idx > Len(image_names)
    /\ disk' = DiskAfterClose(disk, buffer)
    /\ buffer' = <<>>
    /\ pc' = "done"
    /\ UNCHANGED rdVars
    /\ UNCHANGED <<image_names, suffixes, alt_names, directory_to_search,
                   dirFiles, content, listing, idx, sidx, image_path,
                   binary_image, skeleton, regions, comp_idx, k, log,
                   regPair, err, this_image, selected>>

\* line 45: no suffix is left for this image name
SuffixesDone ==
    /\ pc = "suffix"
    /\ sidx > Len(suffixes)
    /\ idx' = idx + 1
    /\ pc' = "criterion"
    /\ UNCHANGED rdVars
    /\ UNCHANGED <<image_names, suffixes, alt_names, directory_to_search,
                   dirFiles, content, listing, sidx, image_path,
                   binary_image, skeleton, regions, comp_idx, k, buffer,
                   disk, log, regPair, err, this_image, selected>>

\* lines 47-50: no file for this suffix
SkipSuffix ==
    /\ pc = "suffix"
    /\ sidx <= Len(suffixes)
    /\ CurrentFiles = <<>>
    /\ sidx' = sidx + 1
    /\ UNCHANGED rdVars
    /\ UNCHANGED <<image_names, suffixes, alt_names, directory_to_search,
                   dirFiles, content, listing, idx, pc, image_path,
                   binary_image, skeleton, regions, comp_idx, k, buffer,
                   disk, log, regPair, err, this_image, selected>>

\* an exception leaves the with block: f_out is closed, the run is over
Abort(e) ==
    /\ disk' = DiskAfterClose(disk, buffer)
    /\ buffer' = <<>>
    /\ err' = e
    /\ pc' = "failed"

\* lines 52-55: the file of the listing is gone, io.imread raises
LoadFail ==
    /\ pc = "suffix"
    /\ sidx <= Len(suffixes)
    /\ CurrentFiles # <<>>
    /\ Basename(FirstFile(CurrentFiles)) \notin dirFiles
    /\ image_path' = FirstFile(CurrentFiles)
    /\ selected' = Append(selected, [idx |-> idx, sidx |-> sidx, path |-> image_path'])
    /\ Abort("imread")
    /\ UNCHANGED rdVars
    /\ UNCHANGED <<image_names, suffixes, alt_names, directory_to_search,
                   dirFiles, content, listing, idx, sidx, binary_image,
                   skeleton, regions, comp_idx, k, log, regPair,
                   this_image>>

\* lines 52-77: load, grey, binarize, skeletonize, label
Process ==
    /\ pc = "suffix"
    /\ sidx <= Len(suffixes)
    /\ CurrentFiles # <<>>
    /\ Basename(FirstFile(CurrentFiles)) \in dirFiles
    /\ image_path' = FirstFile(CurrentFiles)
    /\ selected' = Append(selected, [idx |-> idx, sidx |-> sidx, path |-> image_path'])
    /\ this_image' = ToGray(content[Basename(image_path')])
    /\ binary_image' = Binarize(this_image')
    /\ skeleton' \in Skeletons(binary_image')
    /\ regions' = Regions(skeleton')
    /\ regPair' = <<idx, sidx>>
    /\ comp_idx' = 1
    /\ k' = 0
    /\ IF regions' = <<>>
       THEN pc' = "suffix" /\ sidx' = sidx + 1
       ELSE pc' = "emit" /\ sidx' = sidx
    /\ UNCHANGED rdVars
    /\ UNCHANGED <<image_names, suffixes, alt_names, directory_to_search,
                   dirFiles, content, listing, idx, buffer, disk, log, err>>

\* lines 80-88: one line is written, and the loops move on
WriteRecord ==
    /\ pc = "emit"
    /\ idx <= Len(alt_names)
    /\ LET sub == Subsample(regions[comp_idx])
           line == Line(idx, sub[k + 1], suffixes[sidx], comp_idx)
       IN  /\ buffer' = BufferAfterWrite(buffer, line)
           /\ disk' = DiskAfterWrite(disk, buffer, line)
           /\ log' = Append(log, [idx |-> idx, sidx |-> sidx,
                                  comp |-> comp_idx, k |-> k, line |-> line])
           /\ IF k + 1 < Len(sub)
              THEN k' = k + 1 /\ UNCHANGED <<comp_idx, pc, sidx>>
              ELSE /\ k' = 0
                   /\ comp_idx' = comp_idx + 1
                   /\ IF comp_idx < Len(regions)
                      THEN UNCHANGED <<pc, sidx>>
                      ELSE pc' = "suffix" /\ sidx' = sidx + 1
    /\ UNCHANGED rdVars
    /\ UNCHANGED <<image_names, suffixes, alt_names, directory_to_search,
                   dirFiles, content, listing, idx, image_path,
                   binary_image, skeleton, regions, regPair, err,
                   this_image, selected>>

\* line 88: alt_names has no element idx, the format call raises
WriteFail ==
    /\ pc = "emit"
    /\ idx > Len(alt_names)
    /\ Abort("IndexError")
    /\ UNCHANGED rdVars
    /\ UNCHANGED <<image_names, suffixes, alt_names, directory_to_search,
                   dirFiles, content, listing, idx, sidx, image_path,
                   binary_image, skeleton, regions, comp_idx, k, log,
                   regPair, this_image, selected>>

\* the environment: a file disappears from the directory during the run
RemoveFile ==
    /\ pc \in {"criterion", "suffix"}
    /\ \E f \in dirFiles : dirFiles' = dirFiles \ {f}
    /\ UNCHANGED rdVars
    /\ UNCHANGED <<image_names, suffixes, alt_names, directory_to_search,
                   content, pc, listing, idx, sidx, image_path,
                   binary_image, skeleton, regions, comp_idx, k, buffer,
                   disk, log, regPair, err, this_image, selected>>

Next ==
    \/ Glob \/ NextCriterion \/ Close \/ SuffixesDone \/ SkipSuffix
    \/ LoadFail \/ Process \/ WriteRecord \/ WriteFail \/ RemoveFile

Spec == Init /\ [][Next]_vars

----------------------------------------------------------------------------
(* Claims about extract_points *)

\* every line written so far, in the order of the writes
Out == disk \o buffer

LogLines == [i \in 1..Len(log) |-> log[i].line]

IsPrefix(s, t) == Len(s) <= Len(t) /\ SubSeq(t, 1, Len(s)) = s

\* the positions of the listing whose file name holds the base name of
\* image name i and suffix s
MatchIndexes(i, s) ==
    {j \in 1..Len(listing) :
        /\ Contains(NameOnly(image_names[i]), Basename(listing[j]))
        /\ Contains(suffixes[s], Basename(listing[j]))}

Pairs == (1..Len(image_names)) \X (1..Len(suffixes))

\* pair p comes before pair q in the order of the loops
PairBefore(p, q) == p[1] < q[1] \/ (p[1] = q[1] /\ p[2] < q[2])

\* the loops have left pair p behind
PairIsPast(p) ==
    \/ pc = "done"
    \/ pc = "criterion" /\ p[1] < idx
    \/ pc \in {"suffix", "emit"} /\ PairBefore(p, <<idx, sidx>>)

\* log entry a was written at an earlier loop position than b
WrittenBefore(a, b) ==
    \/ a.idx < b.idx
    \/ a.idx = b.idx /\ a.sidx < b.sidx
    \/ a.idx = b.idx /\ a.sidx = b.sidx /\ a.comp < b.comp
    \/ a.idx = b.idx /\ a.sidx = b.sidx /\ a.comp = b.comp /\ a.k < b.k

\* C1: the lines of the output appear in the order criterion, suffix,
\* component, stride position, and each line carries the alt name at its
\* image name's index, the suffix of its pair and its component's number.
C1_OutputOrder ==
    /\ Out = LogLines
    /\ \A i \in 1..Len(log) :
          /\ Out[i][1] = alt_names[log[i].idx]
          /\ Out[i][4] = suffixes[log[i].sidx]
          /\ Out[i][5] = log[i].comp
    /\ \A i, j \in 1..Len(log) : i < j => WrittenBefore(log[i], log[j])

\* a finished run whose output holds lines of two criteria, of two suffixes
\* of one criterion and of two components of one pair
C1_Witness ==
    /\ pc = "done"
    /\ \E a, b \in 1..Len(log) : log[a].idx # log[b].idx
    /\ \E a, b \in 1..Len(log) :
          log[a].idx = log[b].idx /\ log[a].sidx # log[b].sidx
    /\ \E a, b \in 1..Len(log) :
          /\ log[a].idx = log[b].idx /\ log[a].sidx = log[b].sidx
          /\ log[a].comp # log[b].comp

\* the lines written for component c of the pair the regions belong to
Emitted(c) ==
    LET T(e) == <<e.idx, e.sidx>> = regPair /\ e.comp = c
    IN  SelectSeq(log, T)

\* the lines e are the first n lines a component with these coords gets:
\* line j holds (x, y) = (col, row) of the pixel at index 5 (j - 1)
StridePrefix(e, coords, n) ==
    /\ Len(e) = n
    /\ \A j \in 1..n :
          /\ 5 * (j - 1) < Len(coords)
          /\ e[j].line[2] = coords[5 * (j - 1) + 1][2]
          /\ e[j].line[3] = coords[5 * (j - 1) + 1][1]

\* C2: a component of N pixels gets ceil(N/5) lines, line k with the
\* (col, row) of its pixel at index 5k, and no other line.
C2_StrideLaw ==
    \A c \in 1..Len(regions) :
        LET N == Len(regions[c])
            e == Emitted(c)
        IN  /\ N >= 1
            /\ c < comp_idx =>
                  /\ 5 * Len(e) >= N /\ 5 * (Len(e) - 1) < N
                  /\ StridePrefix(e, regions[c], Len(e))
            /\ c = comp_idx => StridePrefix(e, regions[c], k)
            /\ c > comp_idx => e = <<>>

\* a component of more than 5 pixels, not a multiple of 5, has been emitted
C2_Witness ==
    \E c \in 1..Len(regions) :
        c < comp_idx /\ Len(regions[c]) > 5 /\ Len(regions[c]) % 5 # 0

\* C3: a pair no file of the listing matches writes no line and raises no
\* error, the loop goes on with the next suffix; every line written comes
\* from a pair that has a match.
C3_EmptyMatchSkip ==
    /\ [](\A i \in 1..Len(log) : MatchIndexes(log[i].idx, log[i].sidx) # {})
    /\ [][(pc = "suffix" /\ sidx <= Len(suffixes) /\ MatchIndexes(idx, sidx) = {})
            => /\ pc' = "suffix" /\ idx' = idx /\ err' = "none"
               /\ sidx' \in {sidx, sidx + 1}
               /\ log' = log /\ disk' = disk /\ buffer' = buffer
               /\ selected' = selected]_vars
    /\ [](pc = "failed" => MatchIndexes(idx, sidx) # {})

\* a finished run that skipped a pair and wrote lines for a later one
C3_Witness ==
    /\ pc = "done"
    /\ \E p \in Pairs : \E i \in 1..Len(log) :
          /\ MatchIndexes(p[1], p[2]) = {}
          /\ PairBefore(p, <<log[i].idx, log[i].sidx>>)

Unsupported(img) == img.dtype \notin {"none", "uint8", "float64"}

Min(S) == CHOOSE x \in S : \A y \in S : x <= y

\* C6: the file a pair processes is the first of the listing whose file
\* name holds the base name and the suffix; a pair with such a file
\* processes exactly one file, a pair without processes none; the listing
\* taken at the start is the one every criterion uses.
C6_FirstMatchInListing ==
    /\ [](\A n \in 1..Len(selected) :
            LET M == MatchIndexes(selected[n].idx, selected[n].sidx)
            IN  /\ M # {}
                /\ selected[n].path = listing[Min(M)]
                /\ \A m \in 1..Len(selected) :
                      (selected[m].idx = selected[n].idx
                         /\ selected[m].sidx = selected[n].sidx) => m = n)
    /\ [](\A p \in Pairs :
            PairIsPast(p) =>
                (MatchIndexes(p[1], p[2]) # {}
                   <=> \E n \in 1..Len(selected) :
                          selected[n].idx = p[1] /\ selected[n].sidx = p[2]))
    /\ [](\A i \in 1..Len(log) : \E n \in 1..Len(selected) :
            selected[n].idx = log[i].idx /\ selected[n].sidx = log[i].sidx)
    /\ [][pc # "open" => listing' = listing]_vars

\* a finished run in which a pair had several matching files, the first of
\* them not the first file of the listing
C6_Witness ==
    /\ pc = "done"
    /\ \E n \in 1..Len(selected) :
          LET M == MatchIndexes(selected[n].idx, selected[n].sidx)
          IN  Cardinality(M) >= 2 /\ Min(M) > 1

PixelSet(coords) == {coords[i] : i \in 1..Len(coords)}

\* the pixels of S with their distance from seed, the number of steps
\* between 8-neighbours: a breadth-first flood fill visits the pixels by
\* non-decreasing distance, whatever its neighbour order
RECURSIVE Distances(_, _, _, _)
Distances(S, frontier, seen, d) ==
    IF frontier = {} THEN {}
    ELSE LET nxt == {q \in S \ seen : \E p \in frontier : q \in Neighbors8(p)}
         IN  {<<p, d>> : p \in frontier} \cup Distances(S, nxt, seen \cup nxt, d + 1)

\* pixel p can stand at 0-based position n of some breadth-first order of S
BreadthFirstAt(S, p, n) ==
    LET seed == RowMajorFirst(S)
        D == Distances(S, {seed}, {seed}, 0)
        dp == CHOOSE d \in 0..Cardinality(S) : <<p, d>> \in D
    IN  /\ Cardinality({e \in D : e[2] < dp}) <= n
        /\ n < Cardinality({e \in D : e[2] <= dp})

\* the pixel (row, col) of a log entry
PixelOf(e) == <<e.line[3], e.line[2]>>

\* C7 as claimed: line k of a component holds the pixel at position 5k of
\* a breadth-first order from the component's first pixel.
C7_EmittedBreadthFirst ==
    \A c \in 1..Len(regions) :
        LET e == Emitted(c)
        IN  \A j \in 1..Len(e) :
               BreadthFirstAt(PixelSet(regions[c]), PixelOf(e[j]), 5 * (j - 1))

\* C7 as amended: the pixel list is in ascending (row, col) order, and
\* line k of a component holds its pixel with exactly 5k pixels before it
\* in that order.
C7_EmittedRasterOrder ==
    \A c \in 1..Len(regions) :
        LET r == regions[c]
            e == Emitted(c)
        IN  /\ \A i, j \in 1..Len(r) : i < j => (RowMajorLe(r[i], r[j]) /\ r[i] # r[j])
            /\ \A j \in 1..Len(e) :
                  /\ PixelOf(e[j]) \in PixelSet(r)
                  /\ Cardinality({q \in PixelSet(r) \ {PixelOf(e[j])} :
                                    RowMajorLe(q, PixelOf(e[j]))}) = 5 * (j - 1)

\* a component has been emitted whose second line holds a pixel that no
\* breadth-first order has at position 5
C7_Witness ==
    \E c \in 1..Len(regions) :
        /\ c < comp_idx
        /\ Len(Emitted(c)) >= 2
        /\ ~BreadthFirstAt(PixelSet(regions[c]), PixelOf(Emitted(c)[2]), 5)

\* C8: an 8-bit single-channel raster gives a mask of its own dimensions
\* in which a pixel is foreground iff its sample is below 255.
C8_Uint8Boundary ==
    this_image.dtype = "uint8" =>
        /\ Len(binary_image) = Len(this_image.data)
        /\ \A r \in 1..Len(binary_image) :
              /\ Len(binary_image[r]) = Len(this_image.data[r])
              /\ \A c \in 1..Len(binary_image[r]) :
                    /\ this_image.data[r][c] \in 0..255
                    /\ binary_image[r][c] = (this_image.data[r][c] <= 254)

\* a raster with a sample of 254, foreground, and one of 255, background
C8_Witness ==
    /\ this_image.dtype = "uint8"
    /\ \E r \in 1..Len(binary_image) : \E c, d \in 1..Len(binary_image[r]) :
          /\ this_image.data[r][c] = 254 /\ binary_image[r][c]
          /\ this_image.data[r][d] = 255 /\ ~binary_image[r][d]

----------------------------------------------------------------------------
(* read2DExport3D *)

\* lines a file of marker coordinates holds at most
MaxLines == 3

Whitespace == {" ", "\n", "\t"}

\* str.strip()
Strip(t) ==
    LET solid == {i \in 1..Len(t) : t[i] \notin Whitespace}
    IN  IF solid = {} THEN <<>>
        ELSE SubSeq(t, CHOOSE i \in solid : \A j \in solid : i <= j, Max(solid))

\* str.split(",", n): at most n cuts, at the first commas
RECURSIVE Split(_, _)
Split(t, n) ==
    LET commas == {i \in 1..Len(t) : t[i] = ","}
    IN  IF n = 0 \/ commas = {} THEN <<t>>
        ELSE LET i == CHOOSE c \in commas : \A d \in commas : c <= d
             IN  <<SubSeq(t, 1, i - 1)>> \o Split(SubSeq(t, i + 1, Len(t)), n - 1)

\* line 62: line.strip().split(",", 5)
Fields(line) == Split(Strip(line), 5)

Digits == {"0", "1", "2", "3", "4", "5", "6", "7", "8", "9"}

\* float(t) returns for t: digits with at most one point, blanks around
\* them (signs, exponents, inf and nan are not among the model's inputs)
IsFloat(t) ==
    LET u == Strip(t)
    IN  /\ \A i \in 1..Len(u) : u[i] \in Digits \cup {"."}
        /\ \E i \in 1..Len(u) : u[i] \in Digits
        /\ Cardinality({i \in 1..Len(u) : u[i] = "."}) <= 1

\* lines 62-64 raise no ValueError: five fields, x and y numbers
Parses(line) ==
    /\ Len(Fields(line)) = 5
    /\ IsFloat(Fields(line)[2])
    /\ IsFloat(Fields(line)[3])

\* a slip: every camera of the chunk is kept
AllCameras(cams) == cams

\* lines 28-29: the aligned, regular cameras of the chunk
AlignedRegular(cams) ==
    LET T(camera) == camera.transform /\ camera.type = "Regular"
    IN  SelectSeq(cams, T)

\* lines 67-68, 99: the first camera with this label, 0 when there is none
FirstCamera(cams, label) ==
    LET hits == {i \in 1..Len(cams) : cams[i].label = label}
    IN  IF hits = {} THEN 0 ELSE CHOOSE i \in hits : \A j \in hits : i <= j

\* lines 47-50
OutPath(p) ==
    IF SplitextRoot(p) # p
    THEN SplitextRoot(p) \o <<"_", "o", "u", "t", ".", "t", "x", "t">>
    ELSE p \o <<"_", "o", "u", "t", ".", "t", "x", "t">>

\* line 70: chunk.addMarker() returns a marker the chunk did not hold
NewMarker(ms) == Max(ms \cup {0}) + 1

\* line 98: chunk.remove(marker)
RemoveMarker(ms, m) == ms \ {m}

\* lines 94-95: the fields of one output line; coord stands for the three
\* formatted coordinates
OutLine(label, coord, lineType, lineNumber) == <<label, coord, lineType, lineNumber>>

\* what crs.project(T.mulp(pickedPoint)) can be
Coords == {"P", "Q"}

(* The inputs the model runs read2DExport3D on *)

Cam(label, transform, type) == [label |-> label, transform |-> transform, type |-> type]

\* camera a twice, b not aligned, c not regular
ChunkCameras ==
    <<Cam(<<"b">>, FALSE, "Regular"), Cam(<<"a">>, TRUE, "Regular"),
      Cam(<<"c">>, TRUE, "Keyframe"), Cam(<<"a">>, TRUE, "Regular")>>

ReadLines ==
    {<<"a", ",", "1", ",", "2", ",", "t", ",", "7", "\n">>,
     <<" ", "a", ",", "1", ".", "5", ",", " ", "2", ",", "u", ",", "8", " ", "\n">>,
     <<"b", ",", "1", ",", "2", ",", "t", ",", "9", "\n">>,
     <<"c", ",", "1", ",", "2", ",", "t", ",", "9", "\n">>,
     <<"z", ",", "1", ",", "2", ",", "t", ",", "9">>,
     <<"a", ",", "\n">>,
     <<"a", ",", "1", ",", "2", ",", "t", "\n">>,
     <<"a", ",", "t", ",", "2", ",", "t", ",", "7", "\n">>,
     <<"a", ",", "1", ",", "2", ",", "t", ",", "7", ",", "9", "\n">>}

SeqsUpTo(S, n) == UNION {[1..m -> S] : m \in 0..n}

PathTxt == <<"d", "/", "m", ".", "t", "x", "t">>
PathBare == <<"m">>
PathGone == <<"g", ".", "t", "x", "t">>

ExIdle ==
    /\ image_names = <<>> /\ suffixes = <<>> /\ alt_names = <<>>
    /\ directory_to_search = <<>> /\ dirFiles = {} /\ content = <<>>
    /\ pc = "idle" /\ listing = <<>> /\ idx = 0 /\ sidx = 0
    /\ image_path = <<>> /\ this_image = Raster("none", 0, <<>>)
    /\ binary_image = <<>> /\ skeleton = {}
    /\ regions = <<>> /\ comp_idx = 1 /\ k = 0
    /\ buffer = <<>> /\ disk = <<>> /\ log = <<>>
    /\ selected = <<>> /\ regPair = <<0, 0>> /\ err = "none"

ReadStart ==
    /\ rpc = "start" /\ markers = markers0 /\ cameras = <<>> /\ lines = <<>>
    /\ lineNo = 0 /\ out_path = <<>> /\ output = <<>> /\ rlog = <<>>

\* a call that passes the checks of lines 17-37
InitReadValid ==
    /\ \E ls \in SeqsUpTo(ReadLines, MaxLines) :
          /\ path \in {PathTxt, PathBare}
          /\ path = PathBare => Len(ls) <= 1
          /\ fsFiles = (PathTxt :> ls) @@ (PathBare :> ls)
    /\ chunk = [present |-> TRUE, cameras |-> ChunkCameras, dense_cloud |-> TRUE]
    /\ markers0 = {1, 2}

\* a call that one of the checks of lines 17-37 turns away
InitReadInvalid ==
    /\ path \in {<<>>, PathGone, PathTxt}
    /\ fsFiles = (PathTxt :> <<>>)
    /\ chunk \in [present : BOOLEAN,
                  cameras : {<<>>, SubSeq(ChunkCameras, 1, 1), ChunkCameras},
                  dense_cloud : BOOLEAN]
    /\ markers0 = {}

InitRead == (InitReadValid \/ InitReadInvalid) /\ ReadStart /\ ExIdle

PathIsFile == path # <<>> /\ path \in DOMAIN fsFiles

\* lines 17-22
InvalidPath ==
    /\ rpc = "start"
    /\ ~PathIsFile
    /\ rpc' = "returned0"
    /\ UNCHANGED <<path, fsFiles, chunk, markers, cameras, lines, lineNo,
                   out_path, output, markers0, rlog>>
    /\ UNCHANGED exVars

\* lines 23-25
NoChunk ==
    /\ rpc = "start"
    /\ PathIsFile
    /\ ~chunk.present
    /\ rpc' = "returned0"
    /\ UNCHANGED <<path, fsFiles, chunk, markers, cameras, lines, lineNo,
                   out_path, output, markers0, rlog>>
    /\ UNCHANGED exVars

\* lines 28-32
NoCameras ==
    /\ rpc = "start"
    /\ PathIsFile
    /\ chunk.present
    /\ AlignedRegular(chunk.cameras) = <<>>
    /\ cameras' = <<>>
    /\ rpc' = "returned0"
    /\ UNCHANGED <<path, fsFiles, chunk, markers, lines, lineNo, out_path,
                   output, markers0, rlog>>
    /\ UNCHANGED exVars

\* lines 35-37
NoDenseCloud ==
    /\ rpc = "start"
    /\ PathIsFile
    /\ chunk.present
    /\ AlignedRegular(chunk.cameras) # <<>>
    /\ ~chunk.dense_cloud
    /\ cameras' = AlignedRegular(chunk.cameras)
    /\ rpc' = "returned0"
    /\ UNCHANGED <<path, fsFiles, chunk, markers, lines, lineNo, out_path,
                   output, markers0, rlog>>
    /\ UNCHANGED exVars

\* lines 28-54: the checks pass, the files are opened, the lines are read
OpenFiles ==
    /\ rpc = "start"
    /\ PathIsFile
    /\ chunk.present
    /\ AlignedRegular(chunk.cameras) # <<>>
    /\ chunk.dense_cloud
    /\ cameras' = AlignedRegular(chunk.cameras)
    /\ out_path' = OutPath(path)
    /\ output' = <<>>
    /\ lines' = fsFiles[path]
    /\ lineNo' = 1
    /\ rpc' = "loop"
    /\ UNCHANGED <<path, fsFiles, chunk, markers, markers0, rlog>>
    /\ UNCHANGED exVars

AtLine == rpc = "loop" /\ lineNo <= Len(lines)

\* lines 58-59: a line of fewer than 4 characters is passed over
SkipShort ==
    /\ AtLine
    /\ Len(lines[lineNo]) < 4
    /\ lineNo' = lineNo + 1
    /\ UNCHANGED <<path, fsFiles, chunk, markers, rpc, cameras, lines,
                   out_path, output, markers0, rlog>>
    /\ UNCHANGED exVars

\* lines 62-64: the unpacking or a float() raises ValueError, the call ends
ParseError ==
    /\ AtLine
    /\ Len(lines[lineNo]) >= 4
    /\ ~Parses(lines[lineNo])
    /\ rpc' = "raised"
    /\ UNCHANGED <<path, fsFiles, chunk, markers, cameras, lines, lineNo,
                   out_path, output, markers0, rlog>>
    /\ UNCHANGED exVars

\* lines 62-68, 102: no camera has the line's label
NoCamera ==
    /\ AtLine
    /\ Len(lines[lineNo]) >= 4
    /\ Parses(lines[lineNo])
    /\ FirstCamera(cameras, Fields(lines[lineNo])[1]) = 0
    /\ lineNo' = lineNo + 1
    /\ UNCHANGED <<path, fsFiles, chunk, markers, rpc, cameras, lines,
                   out_path, output, markers0, rlog>>
    /\ UNCHANGED exVars

\* lines 62-80, 99-102: a camera has the label, a marker is added, the
\* ray meets no point of the dense cloud
PickNone ==
    /\ AtLine
    /\ Len(lines[lineNo]) >= 4
    /\ Parses(lines[lineNo])
    /\ FirstCamera(cameras, Fields(lines[lineNo])[1]) # 0
    /\ markers' = markers \cup {NewMarker(markers)}
    /\ rlog' = Append(rlog, [line |-> lineNo, picked |-> "None",
                             cam |-> FirstCamera(cameras, Fields(lines[lineNo])[1])])
    /\ lineNo' = lineNo + 1
    /\ UNCHANGED <<path, fsFiles, chunk, rpc, cameras, lines, out_path,
                   output, markers0>>
    /\ UNCHANGED exVars

\* lines 62-102: a camera has the label, a marker is added, the ray meets
\* a point, the line is written and the marker removed
PickPoint ==
    /\ AtLine
    /\ Len(lines[lineNo]) >= 4
    /\ Parses(lines[lineNo])
    /\ FirstCamera(cameras, Fields(lines[lineNo])[1]) # 0
    /\ \E coord \in Coords :
          LET f == Fields(lines[lineNo])
              marker == NewMarker(markers)
          IN  /\ output' = Append(output, OutLine(f[1], coord, f[4], f[5]))
              /\ markers' = RemoveMarker(markers \cup {marker}, marker)
              /\ rlog' = Append(rlog, [line |-> lineNo, picked |-> coord,
                                       cam |-> FirstCamera(cameras, f[1])])
    /\ lineNo' = lineNo + 1
    /\ UNCHANGED <<path, fsFiles, chunk, rpc, cameras, lines, out_path,
                   markers0>>
    /\ UNCHANGED exVars

\* lines 56, 104-105: no line is left, the call returns 1
Finish ==
    /\ rpc = "loop"
    /\ lineNo > Len(lines)
    /\ rpc' = "finished"
    /\ UNCHANGED <<path, fsFiles, chunk, markers, cameras, lines, lineNo,
                   out_path, output, markers0, rlog>>
    /\ UNCHANGED exVars

NextRead ==
    \/ InvalidPath \/ NoChunk \/ NoCameras \/ NoDenseCloud \/ OpenFiles
    \/ SkipShort \/ ParseError \/ NoCamera \/ PickNone \/ PickPoint \/ Finish

SpecRead == InitRead /\ [][NextRead]_vars

----------------------------------------------------------------------------
(* Claims about read2DExport3D *)

\* the line's label is that of an aligned regular camera of the chunk
HasCamera(line) ==
    \E i \in 1..Len(chunk.cameras) :
        /\ chunk.cameras[i].transform
        /\ chunk.cameras[i].type = "Regular"
        /\ chunk.cameras[i].label = Fields(line)[1]

\* the input lines of the form label,x,y,lineType,lineNumber whose label
\* is that of an aligned regular camera
MatchedLines ==
    {i \in 1..Len(lines) :
        Len(lines[i]) >= 4 /\ Parses(lines[i]) /\ HasCamera(lines[i])}

\* the n-th smallest element of a set of numbers
Nth(S, n) == CHOOSE i \in S : Cardinality({j \in S : j < i}) = n - 1

\* C9 as claimed: the output of a finished call holds one line for each
\* matched input line, in input order, with its label, lineType and
\* lineNumber.
C9_OneLinePerMatch ==
    rpc = "finished" =>
        /\ Len(output) = Cardinality(MatchedLines)
        /\ \A n \in 1..Len(output) :
              LET f == Fields(lines[Nth(MatchedLines, n)])
              IN  output[n][1] = f[1] /\ output[n][3] = f[4] /\ output[n][4] = f[5]

\* the lookups that found a point
PickedLog ==
    LET T(e) == e.picked # "None" IN SelectSeq(rlog, T)

\* C9 as amended: a lookup is made for exactly the matched lines among the
\* lines gone through, in input order; the output holds one line for each
\* lookup that found a point, with the input line's label, lineType and
\* lineNumber, and none for a lookup that found no point; a finished call
\* has gone through every line.
C9_OneLinePerPickedMatch ==
    /\ \A n, m \in 1..Len(rlog) : n < m => rlog[n].line < rlog[m].line
    /\ \A i \in 1..Len(lines) :
          i < lineNo =>
              ((\E n \in 1..Len(rlog) : rlog[n].line = i) <=> i \in MatchedLines)
    /\ \A n \in 1..Len(rlog) : rlog[n].line < lineNo
    /\ Len(output) = Len(PickedLog)
    /\ \A n \in 1..Len(output) :
          LET f == Fields(lines[PickedLog[n].line])
          IN  output[n] = <<f[1], PickedLog[n].picked, f[4], f[5]>>
    /\ rpc = "finished" => lineNo = Len(lines) + 1

\* a finished call that wrote two lines and made a lookup that found no
\* point
C9_Witness ==
    /\ rpc = "finished"
    /\ Len(output) = 2
    /\ \E n \in 1..Len(rlog) : rlog[n].picked = "None"

\* C10: the chunk holds the markers it held when read2DExport3D was
\* called, after every line and whatever the surface pick returns.
C10_MarkersUnchanged == markers = markers0

====
